---- MODULE Spec2Model ----
(***************************************************************************)
(* State-transition core of the DEX (pkg/dex/transition.go).               *)
(*                                                                         *)
(* A Transition is the per-round scratchpad that records transactions      *)
(* against a State, finalizes the round (expirations, thaw, order books)   *)
(* and commits.  State, Account, TokenCache, the order book and            *)
(* validateNonce live in files of the package that are not part of the     *)
(* sources at hand; they are modelled from the design document.            *)
(*                                                                         *)
(* Balances are Go uint64.  The model keeps the wrap-around arithmetic     *)
(* but scales the width down to UintBits bits.                             *)
(***************************************************************************)
EXTENDS Integers, Sequences, FiniteSets, TLC

(***************************************************************************)
(* Bounds of the model.                                                    *)
(***************************************************************************)
UintBits == 3
MaxQuant == 2
MaxRound == 2
MaxTxns == 2
MaxTokens == 4
MaxChainRound == 2

(***************************************************************************)
(* Program constants and input domains.                                    *)
(***************************************************************************)
OrderPriceDecimals == 8
Modulus == 2 ^ UintBits
Addrs == {"A", "B", "C"}
TokenIDs == 0 .. (MaxTokens - 1)
Rounds == 0 .. (MaxRound + 2)
Prices == {50000000, 100000000, 450000000}
Symbols == {"abc", "def", "DEF", "ghi"}

\* uint64 arithmetic wraps around.
U(x) == x % Modulus

ToUpper(sym) ==
    CASE sym = "abc" -> "ABC"
      [] sym = "def" -> "DEF"
      [] sym = "xyz" -> "XYZ"
      [] sym = "ghi" -> "GHI"
      [] OTHER -> sym

EmptyMap == [x \in {} |-> 0]
Perms(S) == {p \in [1 .. Cardinality(S) -> S] : \A i, j \in DOMAIN p : i # j => p[i] # p[j]}

Min(a, b) == IF a < b THEN a ELSE b

(***************************************************************************)
(* calcQuoteQuant: big.Int product and two truncating divisions, then      *)
(* narrowed to the unsigned machine word.                                  *)
(***************************************************************************)
calcQuoteQuant(baseQuantUnit, quoteDecimals, priceQuantUnit, priceDecimals, baseDecimals) ==
    LET quoteDenominator == 10 ^ quoteDecimals
        priceDenominator == 10 ^ OrderPriceDecimals
        baseDenominator == 10 ^ baseDecimals
        r1 == baseQuantUnit * quoteDenominator
        r2 == r1 * priceQuantUnit
        r3 == r2 \div baseDenominator
        r4 == r3 \div priceDenominator
    IN  U(r4)

(***************************************************************************)
(* Markets, balances, accounts.                                            *)
(***************************************************************************)
Market(b, q) == [Base |-> b, Quote |-> q]
MarketValid(m) == m.Base # m.Quote
Markets == {Market(b, q) : b \in TokenIDs, q \in TokenIDs}

ZeroBalance == [Available |-> 0, Pending |-> 0, Frozen |-> <<>>]
NewAccount == [exists |-> TRUE,
               balances |-> [tok \in TokenIDs |-> ZeroBalance],
               pendingOrders |-> {},
               reports |-> <<>>]
NoAccount == [NewAccount EXCEPT !.exists = FALSE]

Balance(acc, tok) == acc.balances[tok]
UpdateBalance(acc, tok, b) == [acc EXCEPT !.balances[tok] = b]
HasPendingOrder(acc, id) == \E o \in acc.pendingOrders : o.ID = id
PendingOrder(acc, id) == CHOOSE o \in acc.pendingOrders : o.ID = id
RemovePendingOrder(acc, id) ==
    [acc EXCEPT !.pendingOrders = {o \in @ : o.ID # id}]
UpdatePendingOrder(acc, po) ==
    [acc EXCEPT !.pendingOrders = {o \in @ : o.ID # po.ID} \cup {po}]
AddExecutionReport(acc, rep) == [acc EXCEPT !.reports = Append(@, rep)]

(***************************************************************************)
(* Order book: price-time priority, crossing at the maker's price.         *)
(* A book is [nextID, orders]; a resting order keeps its remaining quant.  *)
(***************************************************************************)
newOrderBook == [nextID |-> 0, orders |-> {}]

Crosses(taker, o) ==
    /\ o.SellSide # taker.SellSide
    /\ IF taker.SellSide THEN o.Price >= taker.Price ELSE o.Price <= taker.Price

Better(sellTaker, a, b) ==
    \/ (IF sellTaker THEN a.Price > b.Price ELSE a.Price < b.Price)
    \/ (a.Price = b.Price /\ a.ID < b.ID)

RECURSIVE MatchLoop(_, _, _, _, _)
MatchLoop(orders, taker, takerID, remaining, execs) ==
    LET cands == {o \in orders : Crosses(taker, o)}
    IN  IF remaining = 0 \/ cands = {}
        THEN [orders |-> orders, remaining |-> remaining, execs |-> execs]
        ELSE LET best == CHOOSE o \in cands :
                             \A p \in cands \ {o} : Better(taker.SellSide, o, p)
                 q == Min(remaining, best.Quant)
                 makerExec == [ID |-> best.ID, Owner |-> best.Owner,
                               SellSide |-> best.SellSide, Price |-> best.Price,
                               Quant |-> q, Taker |-> FALSE]
                 takerExec == [ID |-> takerID, Owner |-> taker.Owner,
                               SellSide |-> taker.SellSide, Price |-> best.Price,
                               Quant |-> q, Taker |-> TRUE]
                 rest == IF best.Quant = q
                         THEN orders \ {best}
                         ELSE (orders \ {best}) \cup {[best EXCEPT !.Quant = @ - q]}
             IN  MatchLoop(rest, taker, takerID, remaining - q,
                           execs \o <<makerExec, takerExec>>)

\* The result of Limit once the matching loop has ended in m: what is left
\* of the order rests in the book.
Rest(id, order, m) ==
    [id |-> id,
     executions |-> m.execs,
     book |-> [nextID |-> id + 1,
               orders |-> IF m.remaining > 0
                          THEN m.orders \cup {[ID |-> id, Owner |-> order.Owner,
                                                SellSide |-> order.SellSide,
                                                Price |-> order.Price, Quant |-> m.remaining]}
                          ELSE m.orders]]

Limit(book, order) ==
    Rest(book.nextID, order, MatchLoop(book.orders, order, book.nextID, order.Quant, <<>>))

Cancel(book, id) == [book EXCEPT !.orders = {o \in @ : o.ID # id}]

(***************************************************************************)
(* The world a handler works on: the Transition t, the State s it was      *)
(* created on, and the reason of an abort ("none" while running).          *)
(*   s.accountCache / s.tokenStage  the account/token write cache          *)
(*   s.accounts, s.tokens, s.orderBooks, s.orderExpirations,               *)
(*   s.freezeTokens                 the persisted State                    *)
(***************************************************************************)
Abort(w, why) == [w EXCEPT !.panic = why]
Account(w, addr) == w.s.accountCache[addr]
SetAccount(w, addr, acc) == [w EXCEPT !.s.accountCache[addr] = acc]

\* TokenCache: the tokens persisted when the transition was created.
Info(w, id) == w.t.tokenCache[id + 1]
InfoKnown(w, id) == id + 1 \in DOMAIN w.t.tokenCache
Exists(w, sym) == \E i \in DOMAIN w.t.tokenCache :
                      ToUpper(w.t.tokenCache[i].Symbol) = ToUpper(sym)
Size(w) == Len(w.t.tokenCache)

\* validateNonce: the sender must exist; nonce is the relation of the
\* transaction's nonce to the account's ("invalid", "gap" or "ready").
validateNonce(w, sender, nonce) ==
    IF ~Account(w, sender).exists \/ nonce = "invalid"
    THEN [ready |-> FALSE, nonceValid |-> FALSE]
    ELSE [ready |-> nonce = "ready", nonceValid |-> TRUE]

loadOrderBook(w, m) == IF m \in DOMAIN w.s.orderBooks THEN w.s.orderBooks[m] ELSE newOrderBook

\* getOrderBook: load the book into t.orderBooks on first use.
getOrderBook(w, m) ==
    IF m \in DOMAIN w.t.orderBooks THEN w
    ELSE [w EXCEPT !.t.orderBooks = @ @@ (m :> loadOrderBook(w, m))]

SetBook(w, m, book) == [w EXCEPT !.t.orderBooks[m] = book]
MarkDirty(w, m) == [w EXCEPT !.t.dirtyOrderBooks = @ \cup {m}]

AppendExpiration(exps, r, e) ==
    IF r \in DOMAIN exps THEN [exps EXCEPT ![r] = Append(@, e)] ELSE exps @@ (r :> <<e>>)

(***************************************************************************)
(* refundAfterCancel                                                       *)
(***************************************************************************)
refundAfterCancel(w, addr, cancel, market) ==
    IF cancel.Quant <= cancel.Executed
    THEN Abort(w, "pending order remain amount should be greater than 0")
    ELSE
    LET owner == Account(w, addr)
        refund == cancel.Quant - cancel.Executed
    IN  IF cancel.SellSide
        THEN LET baseBalance == Balance(owner, market.Base)
             IN  IF baseBalance.Pending < refund
                 THEN Abort(w, "pending balance smaller than refund")
                 ELSE SetAccount(w, addr, UpdateBalance(owner, market.Base,
                          [baseBalance EXCEPT !.Pending = U(@ - refund),
                                              !.Available = U(@ + refund)]))
        ELSE LET quoteBalance == Balance(owner, market.Quote)
                 quoteInfo == Info(w, market.Quote)
                 baseInfo == Info(w, market.Base)
                 pendingQuant == calcQuoteQuant(refund, quoteInfo.Decimals, cancel.Price,
                                                OrderPriceDecimals, baseInfo.Decimals)
             IN  IF quoteBalance.Pending < pendingQuant
                 THEN Abort(w, "pending balance smaller than refund")
                 ELSE SetAccount(w, addr, UpdateBalance(owner, market.Quote,
                          [quoteBalance EXCEPT !.Pending = U(@ - pendingQuant),
                                               !.Available = U(@ + pendingQuant)]))

(***************************************************************************)
(* cancelOrder                                                             *)
(***************************************************************************)
Fail(w, why) == [ok |-> FALSE, reason |-> why, w |-> w]
Done(w) == [ok |-> TRUE, reason |-> "", w |-> w]

cancelOrder(w, addr, txn) ==
    IF ~HasPendingOrder(Account(w, addr), txn.ID)
    THEN Fail(w, "can not find the order to cancel")
    ELSE LET cancel == PendingOrder(Account(w, addr), txn.ID)
             w1 == getOrderBook(w, txn.ID.Market)
             w2 == SetBook(w1, txn.ID.Market, Cancel(w1.t.orderBooks[txn.ID.Market], txn.ID.ID))
             w3 == MarkDirty(w2, txn.ID.Market)
             w4 == SetAccount(w3, addr, RemovePendingOrder(Account(w3, addr), txn.ID))
         IN  Done(refundAfterCancel(w4, addr, cancel, txn.ID.Market))

(***************************************************************************)
(* placeOrder: the loop body over the executions of book.Limit.            *)
(***************************************************************************)
\* ApplyExecution comparing the executed total with the fill instead of the order.
ApplyExecutionFilledByFill(w, exec, market, round, quoteInfo, baseInfo) ==
    LET orderID == [ID |-> exec.ID, Market |-> market]
        report == [Round |-> round, ID |-> orderID, SellSide |-> exec.SellSide,
                   TradePrice |-> exec.Price, Quant |-> exec.Quant]
        acc0 == AddExecutionReport(Account(w, exec.Owner), report)
    IN  IF ~HasPendingOrder(acc0, orderID)
        THEN Abort(w, "impossible: can not find matched order")
        ELSE
        LET found == PendingOrder(acc0, orderID)
            executedOrder == [found EXCEPT !.Executed = @ + exec.Quant]
            filled == executedOrder.Executed = exec.Quant
            acc1 == IF filled THEN RemovePendingOrder(acc0, orderID)
                    ELSE UpdatePendingOrder(acc0, executedOrder)
            w1 == IF filled
                  THEN [w EXCEPT !.t.filledOrders = Append(@, executedOrder)]
                  ELSE w
            baseBalance == Balance(acc1, market.Base)
            quoteBalance == Balance(acc1, market.Quote)
        IN  IF exec.SellSide
            THEN IF baseBalance.Pending < exec.Quant
                 THEN Abort(w1, "insufficient pending balance")
                 ELSE LET recvQuant == calcQuoteQuant(exec.Quant, quoteInfo.Decimals, exec.Price,
                                                      OrderPriceDecimals, baseInfo.Decimals)
                          b1 == [baseBalance EXCEPT !.Pending = U(@ - exec.Quant)]
                          q1 == [quoteBalance EXCEPT !.Available = U(@ + recvQuant)]
                      IN  SetAccount(w1, exec.Owner,
                              UpdateBalance(UpdateBalance(acc1, market.Base, b1), market.Quote, q1))
            ELSE LET recvQuant == exec.Quant
                     pendingQuant == calcQuoteQuant(exec.Quant, quoteInfo.Decimals,
                                         executedOrder.Price, OrderPriceDecimals, baseInfo.Decimals)
                     givenQuant == calcQuoteQuant(exec.Quant, quoteInfo.Decimals, exec.Price,
                                                  OrderPriceDecimals, baseInfo.Decimals)
                 IN  IF quoteBalance.Pending < pendingQuant
                     THEN Abort(w1, "insufficient pending balance")
                     ELSE LET q1 == [quoteBalance EXCEPT
                                        !.Pending = U(@ - pendingQuant),
                                        !.Available = U(U(@ + pendingQuant) - givenQuant)]
                              b1 == [baseBalance EXCEPT !.Available = U(@ + recvQuant)]
                          IN  SetAccount(w1, exec.Owner,
                                  UpdateBalance(UpdateBalance(acc1, market.Base, b1), market.Quote, q1))

ApplyExecution(w, exec, market, round, quoteInfo, baseInfo) ==
    LET orderID == [ID |-> exec.ID, Market |-> market]
        report == [Round |-> round, ID |-> orderID, SellSide |-> exec.SellSide,
                   TradePrice |-> exec.Price, Quant |-> exec.Quant]
        acc0 == AddExecutionReport(Account(w, exec.Owner), report)
    IN  IF ~HasPendingOrder(acc0, orderID)
        THEN Abort(w, "impossible: can not find matched order")
        ELSE
        LET found == PendingOrder(acc0, orderID)
            executedOrder == [found EXCEPT !.Executed = @ + exec.Quant]
            filled == executedOrder.Executed = executedOrder.Quant
            acc1 == IF filled THEN RemovePendingOrder(acc0, orderID)
                    ELSE UpdatePendingOrder(acc0, executedOrder)
            w1 == IF filled
                  THEN [w EXCEPT !.t.filledOrders = Append(@, executedOrder)]
                  ELSE w
            baseBalance == Balance(acc1, market.Base)
            quoteBalance == Balance(acc1, market.Quote)
        IN  IF exec.SellSide
            THEN IF baseBalance.Pending < exec.Quant
                 THEN Abort(w1, "insufficient pending balance")
                 ELSE LET recvQuant == calcQuoteQuant(exec.Quant, quoteInfo.Decimals, exec.Price,
                                                      OrderPriceDecimals, baseInfo.Decimals)
                          b1 == [baseBalance EXCEPT !.Pending = U(@ - exec.Quant)]
                          q1 == [quoteBalance EXCEPT !.Available = U(@ + recvQuant)]
                      IN  SetAccount(w1, exec.Owner,
                              UpdateBalance(UpdateBalance(acc1, market.Base, b1), market.Quote, q1))
            ELSE LET recvQuant == exec.Quant
                     pendingQuant == calcQuoteQuant(exec.Quant, quoteInfo.Decimals,
                                         executedOrder.Price, OrderPriceDecimals, baseInfo.Decimals)
                     givenQuant == calcQuoteQuant(exec.Quant, quoteInfo.Decimals, exec.Price,
                                                  OrderPriceDecimals, baseInfo.Decimals)
                 IN  IF quoteBalance.Pending < pendingQuant
                     THEN Abort(w1, "insufficient pending balance")
                     ELSE LET q1 == [quoteBalance EXCEPT
                                        !.Pending = U(@ - pendingQuant),
                                        !.Available = U(U(@ + pendingQuant) - givenQuant)]
                              b1 == [baseBalance EXCEPT !.Available = U(@ + recvQuant)]
                          IN  SetAccount(w1, exec.Owner,
                                  UpdateBalance(UpdateBalance(acc1, market.Base, b1), market.Quote, q1))

RECURSIVE ApplyExecutions(_, _, _, _, _, _)
ApplyExecutions(w, executions, market, round, quoteInfo, baseInfo) ==
    IF executions = <<>> \/ w.panic # "none" THEN w
    ELSE ApplyExecutions(ApplyExecution(w, Head(executions), market, round, quoteInfo, baseInfo),
                         Tail(executions), market, round, quoteInfo, baseInfo)

\* placeOrder after the reserve was moved from available to pending.
Order(addr, txn) ==
    [Owner |-> addr, SellSide |-> txn.SellSide, Quant |-> txn.Quant,
     Price |-> txn.Price, ExpireRound |-> txn.ExpireRound]

\* owner.UpdatePendingOrder(pendingOrder) and the entry in t.expirations.
AddPendingOrder(w, addr, txn, id) ==
    [w EXCEPT
       !.s.accountCache[addr] = UpdatePendingOrder(@,
            [ID |-> id, Owner |-> addr, SellSide |-> txn.SellSide,
             Quant |-> txn.Quant, Price |-> txn.Price,
             ExpireRound |-> txn.ExpireRound, Executed |-> 0]),
       !.t.expirations = IF txn.ExpireRound > 0
                         THEN AppendExpiration(@, txn.ExpireRound, [ID |-> id, Owner |-> addr])
                         ELSE @]

\* placeOrder once book.Limit has returned lim.
Submitted(w, lim, addr, txn, round) ==
    ApplyExecutions(
        AddPendingOrder(MarkDirty(SetBook(w, txn.Market, lim.book), txn.Market),
                        addr, txn, [ID |-> lim.id, Market |-> txn.Market]),
        lim.executions, txn.Market, round,
        Info(w, txn.Market.Quote), Info(w, txn.Market.Base))

\* placeOrder once the order's book is loaded (in w).
SubmitToBook(w, addr, txn, round) ==
    Submitted(w, Limit(w.t.orderBooks[txn.Market], Order(addr, txn)), addr, txn, round)

SubmitOrder(w, addr, txn, round) == SubmitToBook(getOrderBook(w, txn.Market), addr, txn, round)

placeOrder(w, addr, txn, round) ==
    IF ~MarketValid(txn.Market) THEN Fail(w, "order's market is invalid")
    ELSE IF txn.ExpireRound > 0 /\ round >= txn.ExpireRound THEN Fail(w, "order already expired")
    ELSE IF ~InfoKnown(w, txn.Market.Base) \/ ~InfoKnown(w, txn.Market.Quote)
         THEN Fail(w, "trying to place order on nonexistent token")
    ELSE
    LET owner == Account(w, addr)
        baseInfo == Info(w, txn.Market.Base)
        quoteInfo == Info(w, txn.Market.Quote)
    IN  IF txn.SellSide
        THEN LET baseBalance == Balance(owner, txn.Market.Base)
             IN  IF txn.Quant = 0 THEN Fail(w, "can not sell 0 quantity")
                 ELSE IF baseBalance.Available < txn.Quant
                      THEN Fail(w, "sell failed: insufficient balance")
                 ELSE Done(SubmitOrder(
                          SetAccount(w, addr, UpdateBalance(owner, txn.Market.Base,
                              [baseBalance EXCEPT !.Available = U(@ - txn.Quant),
                                                  !.Pending = U(@ + txn.Quant)])),
                          addr, txn, round))
        ELSE LET pendingQuant == calcQuoteQuant(txn.Quant, quoteInfo.Decimals, txn.Price,
                                                OrderPriceDecimals, baseInfo.Decimals)
                 quoteBalance == Balance(owner, txn.Market.Quote)
             IN  IF txn.Quant = 0 THEN Fail(w, "can not buy 0 quantity")
                 ELSE IF pendingQuant = 0 THEN Fail(w, "converted quote quant is 0")
                 ELSE IF quoteBalance.Available < pendingQuant
                      THEN Fail(w, "buy failed, insufficient balance")
                 ELSE Done(SubmitOrder(
                          SetAccount(w, addr, UpdateBalance(owner, txn.Market.Quote,
                              [quoteBalance EXCEPT !.Available = U(@ - pendingQuant),
                                                   !.Pending = U(@ + pendingQuant)])),
                          addr, txn, round))

(***************************************************************************)
(* issueToken, sendToken, freezeToken                                      *)
(***************************************************************************)
\* issueToken comparing the staged symbols as they are written.
issueTokenCaseSensitive(w, addr, txn) ==
    IF Exists(w, txn.Info.Symbol) THEN Fail(w, "token symbol already exists")
    ELSE IF \E i \in DOMAIN w.t.tokenCreations :
                txn.Info.Symbol = w.t.tokenCreations[i].Symbol
         THEN Fail(w, "token symbol already exists in the current transition")
    ELSE LET id == Size(w) + Len(w.t.tokenCreations)
             token == [ID |-> id, Symbol |-> txn.Info.Symbol,
                       Decimals |-> txn.Info.Decimals, TotalUnits |-> txn.Info.TotalUnits]
             w1 == [w EXCEPT !.t.tokenCreations = Append(@, token),
                             !.s.tokenStage = Append(@, token)]
         IN  Done(SetAccount(w1, addr, UpdateBalance(Account(w1, addr), id,
                      [Available |-> txn.Info.TotalUnits, Pending |-> 0, Frozen |-> <<>>])))

issueToken(w, addr, txn) ==
    IF Exists(w, txn.Info.Symbol) THEN Fail(w, "token symbol already exists")
    ELSE IF \E i \in DOMAIN w.t.tokenCreations :
                ToUpper(txn.Info.Symbol) = ToUpper(w.t.tokenCreations[i].Symbol)
         THEN Fail(w, "token symbol already exists in the current transition")
    ELSE LET id == Size(w) + Len(w.t.tokenCreations)
             token == [ID |-> id, Symbol |-> txn.Info.Symbol,
                       Decimals |-> txn.Info.Decimals, TotalUnits |-> txn.Info.TotalUnits]
             w1 == [w EXCEPT !.t.tokenCreations = Append(@, token),
                             !.s.tokenStage = Append(@, token)]
         IN  Done(SetAccount(w1, addr, UpdateBalance(Account(w1, addr), id,
                      [Available |-> txn.Info.TotalUnits, Pending |-> 0, Frozen |-> <<>>])))

sendToken(w, addr, txn) ==
    LET b == Balance(Account(w, addr), txn.TokenID)
    IN  IF txn.Quant = 0 THEN Fail(w, "send 0 quantity")
        ELSE IF b.Available < txn.Quant THEN Fail(w, "insufficient available token balance")
        ELSE LET w1 == IF Account(w, txn.To).exists THEN w ELSE SetAccount(w, txn.To, NewAccount)
                 w2 == SetAccount(w1, addr, UpdateBalance(Account(w1, addr), txn.TokenID,
                           [b EXCEPT !.Available = U(@ - txn.Quant)]))
                 toAccBalance == Balance(Account(w2, txn.To), txn.TokenID)
             IN  Done(SetAccount(w2, txn.To, UpdateBalance(Account(w2, txn.To), txn.TokenID,
                          [toAccBalance EXCEPT !.Available = U(@ + txn.Quant)])))

\* State.FreezeToken: the freeze schedule is not part of the write cache.
FreezeToken(w, r, entry) == [w EXCEPT !.s.freezeTokens[r] = Append(@, entry)]

\* freezeToken refusing only the rounds before the round of the Transition.
freezeTokenUntilThisRound(w, addr, txn) ==
    LET b == Balance(Account(w, addr), txn.TokenID)
        frozen == [AvailableRound |-> txn.AvailableRound, Quant |-> txn.Quant]
    IN  IF txn.Quant = 0 THEN Fail(w, "freeze 0 quantity")
        ELSE IF txn.AvailableRound < w.t.round
             THEN Fail(w, "trying to freeze token to too early round")
        ELSE IF b.Available < txn.Quant THEN Fail(w, "insufficient available token balance")
        ELSE Done(FreezeToken(
                 SetAccount(w, addr, UpdateBalance(Account(w, addr), txn.TokenID,
                     [b EXCEPT !.Available = U(@ - txn.Quant), !.Frozen = Append(@, frozen)])),
                 txn.AvailableRound,
                 [Addr |-> addr, TokenID |-> txn.TokenID, Quant |-> txn.Quant]))

freezeToken(w, addr, txn) ==
    LET b == Balance(Account(w, addr), txn.TokenID)
        frozen == [AvailableRound |-> txn.AvailableRound, Quant |-> txn.Quant]
    IN  IF txn.Quant = 0 THEN Fail(w, "freeze 0 quantity")
        ELSE IF txn.AvailableRound <= w.t.round
             THEN Fail(w, "trying to freeze token to too early round")
        ELSE IF b.Available < txn.Quant THEN Fail(w, "insufficient available token balance")
        ELSE Done(FreezeToken(
                 SetAccount(w, addr, UpdateBalance(Account(w, addr), txn.TokenID,
                     [b EXCEPT !.Available = U(@ - txn.Quant), !.Frozen = Append(@, frozen)])),
                 txn.AvailableRound,
                 [Addr |-> addr, TokenID |-> txn.TokenID, Quant |-> txn.Quant]))

(***************************************************************************)
(* Record: nonce check, dispatch on the decoded variant, append on success.*)
(* The result carries (valid, success) and the world after the call.       *)
(***************************************************************************)
Dispatch(w, addr, txn) ==
    CASE txn.type = "PlaceOrder" -> placeOrder(w, addr, txn, w.t.round)
      [] txn.type = "CancelOrder" -> cancelOrder(w, addr, txn)
      [] txn.type = "IssueToken" -> issueToken(w, addr, txn)
      [] txn.type = "SendToken" -> sendToken(w, addr, txn)
      [] txn.type = "FreezeToken" -> freezeToken(w, addr, txn)
      [] OTHER -> Fail(w, "unknown txn type")

Result(valid, success, reason, w) ==
    [valid |-> valid, success |-> success, reason |-> reason, w |-> w]

\* Record after the type switch: r is what the handler returned.
Returned(r) ==
    IF ~r.ok THEN Result(FALSE, FALSE, r.reason, r.w)
    ELSE IF r.w.panic # "none" THEN Result(FALSE, FALSE, "panic", r.w)
    ELSE Result(TRUE, TRUE, "", r.w)

Appended(r, txn) ==
    IF r.valid /\ r.success THEN [r EXCEPT !.w.t.txns = Append(@, txn)] ELSE r

\* Record with the append moved in front of the dispatch.
RecordAppendsFirst(w, txn) ==
    IF w.t.finalized
    THEN Result(FALSE, FALSE, "panic", Abort(w, "record should never be called after finalized"))
    ELSE
    LET n == validateNonce(w, txn.Owner, txn.Nonce)
    IN  IF ~n.nonceValid THEN Result(FALSE, FALSE, "nonce invalid", w)
        ELSE IF ~n.ready THEN Result(TRUE, FALSE, "nonce gap", w)
        ELSE Returned(Dispatch([w EXCEPT !.t.txns = Append(@, txn)], txn.Owner, txn))

\* Record without the early return on a nonce gap.
RecordIgnoresReady(w, txn) ==
    IF w.t.finalized
    THEN Result(FALSE, FALSE, "panic", Abort(w, "record should never be called after finalized"))
    ELSE
    LET n == validateNonce(w, txn.Owner, txn.Nonce)
    IN  IF ~n.nonceValid THEN Result(FALSE, FALSE, "nonce invalid", w)
        ELSE Appended(Returned(Dispatch(w, txn.Owner, txn)), txn)

Record(w, txn) ==
    IF w.t.finalized
    THEN Result(FALSE, FALSE, "panic", Abort(w, "record should never be called after finalized"))
    ELSE
    LET n == validateNonce(w, txn.Owner, txn.Nonce)
    IN  IF ~n.nonceValid THEN Result(FALSE, FALSE, "nonce invalid", w)
        ELSE IF ~n.ready THEN Result(TRUE, FALSE, "nonce gap", w)
        ELSE Appended(Returned(Dispatch(w, txn.Owner, txn)), txn)

(***************************************************************************)
(* Round finalization.  The three loops over Go maps take the order in     *)
(* which the map is iterated as a parameter.                               *)
(***************************************************************************)
AddOrderExpirations(w, r, ids) == [w EXCEPT !.s.orderExpirations[r] = @ \o ids]
RemoveOrderExpirations(w, r, filled) ==
    [w EXCEPT !.s.orderExpirations[r] = SelectSeq(@, LAMBDA e : e.ID \notin filled)]
GetOrderExpirations(w, r) == w.s.orderExpirations[r]
GetFreezeTokens(w, r) == w.s.freezeTokens[r]
saveOrderBook(w, m, b) == [w EXCEPT !.s.orderBooks = (m :> b) @@ @]

FilledWithExpiration(w) ==
    {w.t.filledOrders[i] : i \in {j \in DOMAIN w.t.filledOrders :
                                      w.t.filledOrders[j].ExpireRound # 0}}
FilledRounds(w) == {o.ExpireRound : o \in FilledWithExpiration(w)}
FilledIDs(w) == {o.ID : o \in FilledWithExpiration(w)}
FilledCount(w, r) == Cardinality({j \in DOMAIN w.t.filledOrders :
                                      w.t.filledOrders[j].ExpireRound = r})

\* One iteration of the loop over rounds in removeFilledOrderFromExpiration;
\* t.purged keeps the rounds State.RemoveOrderExpirations was called for.
RemoveFilledInRound(w, r, filled, toRemove) ==
    LET expirations == IF r \in DOMAIN w.t.expirations THEN w.t.expirations[r] ELSE <<>>
        newExpirations == SelectSeq(expirations, LAMBDA e : e.ID \notin filled)
        w1 == [w EXCEPT !.t.expirations = (r :> newExpirations) @@ @]
        removed == Len(newExpirations) - Len(expirations)
    IN  IF removed = toRemove THEN w1
        ELSE RemoveOrderExpirations([w1 EXCEPT !.t.purged = @ \cup {r}], r, filled)

RECURSIVE RemoveFilledLoop(_, _, _, _)
RemoveFilledLoop(w, order, filled, orig) ==
    IF order = <<>> THEN w
    ELSE RemoveFilledLoop(RemoveFilledInRound(w, Head(order), filled, FilledCount(orig, Head(order))),
                          Tail(order), filled, orig)

removeFilledOrderFromExpiration(w, order) == RemoveFilledLoop(w, order, FilledIDs(w), w)

\* recordOrderExpirations leaving the loop after the first round.
recordFirstExpirationOnly(w, order) ==
    IF order = <<>> THEN w
    ELSE AddOrderExpirations(w, Head(order), w.t.expirations[Head(order)])

RECURSIVE recordOrderExpirations(_, _)
recordOrderExpirations(w, order) ==
    IF order = <<>> THEN w
    ELSE recordOrderExpirations(AddOrderExpirations(w, Head(order), w.t.expirations[Head(order)]),
                                Tail(order))

ExpireOrder(w, o) ==
    LET w1 == getOrderBook(w, o.ID.Market)
        w2 == MarkDirty(SetBook(w1, o.ID.Market, Cancel(w1.t.orderBooks[o.ID.Market], o.ID.ID)),
                        o.ID.Market)
        acc == Account(w2, o.Owner)
    IN  IF ~HasPendingOrder(acc, o.ID) THEN Abort(w2, "can not find expiring order")
        ELSE refundAfterCancel(SetAccount(w2, o.Owner, RemovePendingOrder(acc, o.ID)),
                               o.Owner, PendingOrder(acc, o.ID), o.ID.Market)

RECURSIVE ExpireLoop(_, _)
ExpireLoop(w, orders) ==
    IF orders = <<>> \/ w.panic # "none" THEN w
    ELSE ExpireLoop(ExpireOrder(w, Head(orders)), Tail(orders))

\* expireOrders reading the schedule of the current round.
expireOrdersOfThisRound(w) == ExpireLoop(w, GetOrderExpirations(w, w.t.round))

expireOrders(w) == ExpireLoop(w, GetOrderExpirations(w, w.t.round + 1))

RECURSIVE saveDirtyOrderBooks(_, _)
saveDirtyOrderBooks(w, order) ==
    IF order = <<>> THEN w
    ELSE saveDirtyOrderBooks(
             IF Head(order) \in w.t.dirtyOrderBooks
             THEN saveOrderBook(w, Head(order), w.t.orderBooks[Head(order)])
             ELSE w,
             Tail(order))

\* Index of the first frozen entry of the given quant, 0 when there is none.
FirstFrozen(frozen, quant) ==
    IF \E i \in DOMAIN frozen : frozen[i].Quant = quant
    THEN CHOOSE i \in DOMAIN frozen :
             /\ frozen[i].Quant = quant
             /\ \A j \in 1 .. (i - 1) : frozen[j].Quant # quant
    ELSE 0

RemoveAt(seq, i) == SubSeq(seq, 1, i - 1) \o SubSeq(seq, i + 1, Len(seq))

ReleaseToken(w, token) ==
    LET acc == Account(w, token.Addr)
        b == Balance(acc, token.TokenID)
        removeIdx == FirstFrozen(b.Frozen, token.Quant)
    IN  IF removeIdx = 0 THEN Abort(w, "index out of range")
        ELSE SetAccount(w, token.Addr, UpdateBalance(acc, token.TokenID,
                 [b EXCEPT !.Frozen = RemoveAt(@, removeIdx),
                           !.Available = U(@ + b.Frozen[removeIdx].Quant)]))

RECURSIVE ReleaseLoop(_, _)
ReleaseLoop(w, tokens) ==
    IF tokens = <<>> \/ w.panic # "none" THEN w
    ELSE ReleaseLoop(ReleaseToken(w, Head(tokens)), Tail(tokens))

releaseTokens(w) == ReleaseLoop(w, GetFreezeTokens(w, w.t.round + 1))

\* State.CommitCache: flush the account/token write cache.
CommitCache(w) ==
    [w EXCEPT !.s.accounts = w.s.accountCache,
              !.s.tokens = @ \o w.s.tokenStage,
              !.s.tokenStage = <<>>]

\* The steps of finalizeState after removeFilledOrderFromExpiration and
\* recordOrderExpirations, up to the loop over the loaded order books.
FinalizeTail(w, bookOrder) ==
    LET w1 == saveDirtyOrderBooks(w, bookOrder)
        w2 == IF w1.panic = "none" THEN releaseTokens(w1) ELSE w1
    IN  IF w2.panic = "none"
        THEN [CommitCache(w2) EXCEPT !.t.finalized = TRUE]
        ELSE w2

\* The body of finalizeState: the worlds it can end in, one for each way the
\* maps are iterated.
RunFinalize(w) ==
    UNION {
       UNION {
         LET w1 == removeFilledOrderFromExpiration(w, o1)
                 w2 == recordOrderExpirations(w1, o2)
                 w3 == expireOrders(w2)
             IN  IF w3.panic # "none" THEN {w3}
                 ELSE {FinalizeTail(w3, o3) : o3 \in Perms(DOMAIN w3.t.orderBooks)}
             : o2 \in Perms(DOMAIN removeFilledOrderFromExpiration(w, o1).t.expirations)}
           : o1 \in Perms(FilledRounds(w))}

\* finalizeState without the test of t.finalized.
finalizeStateUnguarded(w) == RunFinalize(w)

finalizeState(w) == IF ~w.t.finalized THEN RunFinalize(w) ELSE {w}

StateHash(w) == finalizeState(w)

\* TokenCache.Update
Update(cache, token) ==
    IF token.ID + 1 <= Len(cache) THEN [cache EXCEPT ![token.ID + 1] = token]
    ELSE Append(cache, token)

RECURSIVE UpdateAll(_, _)
UpdateAll(cache, tokens) ==
    IF tokens = <<>> THEN cache ELSE UpdateAll(Update(cache, Head(tokens)), Tail(tokens))

Commit(w) ==
    {IF f.panic = "none" THEN [f EXCEPT !.t.tokenCache = UpdateAll(@, f.t.tokenCreations)] ELSE f
       : f \in finalizeState(w)}

\* The persisted State.
(***************************************************************************)
(* The payload of a block.  A raw transaction is the byte string the pool  *)
(* holds; a blob is a byte string: no bytes at all, or the header of an    *)
(* RLP list followed by its items.                                         *)
(***************************************************************************)
Raw(txn) == <<"txn", txn>>
Decoded(b) == b[2]

rlpEncodeToBytes(bs) == <<"list">> \o bs

rlpDecodeBytes(blob) ==
    IF blob = <<>> \/ Head(blob) # "list" THEN [err |-> TRUE, txns |-> <<>>]
    ELSE [err |-> FALSE, txns |-> Tail(blob)]

Txns(w) ==
    IF Len(w.t.txns) = 0 THEN <<>>
    ELSE rlpEncodeToBytes([i \in DOMAIN w.t.txns |-> Raw(w.t.txns[i])])

\* What RecordSerialized returns, the Transition and the pool it leaves.
Serialized(count, valid, success, w, p) ==
    [count |-> count, valid |-> valid, success |-> success, w |-> w, pool |-> p]

RECURSIVE RecordEachSkippingFailed(_, _, _, _)
RecordedSkippingFailed(r, txns, p, i) ==
    IF r.w.panic # "none" THEN Serialized(0, FALSE, FALSE, r.w, p \cup {txns[i]})
    ELSE IF ~r.valid \/ ~r.success
         THEN RecordEachSkippingFailed(r.w, txns, p \cup {txns[i]}, i + 1)
    ELSE RecordEachSkippingFailed(r.w, txns, p \ {txns[i]}, i + 1)

RecordEachSkippingFailed(w, txns, p, i) ==
    IF i > Len(txns) THEN Serialized(Len(txns), TRUE, TRUE, w, p)
    ELSE RecordedSkippingFailed(Record(w, Decoded(txns[i])), txns, p, i)

\* The loop of RecordSerialized from the i-th raw transaction on; r is what
\* Record returned on it.
RECURSIVE RecordEach(_, _, _, _)
Recorded(r, txns, p, i) ==
    IF r.w.panic # "none" THEN Serialized(0, FALSE, FALSE, r.w, p \cup {txns[i]})
    ELSE IF ~r.valid \/ ~r.success
         THEN Serialized(0, r.valid, r.success, r.w, p \cup {txns[i]})
    ELSE RecordEach(r.w, txns, p \ {txns[i]}, i + 1)

RecordEach(w, txns, p, i) ==
    IF i > Len(txns) THEN Serialized(Len(txns), TRUE, TRUE, w, p)
    ELSE Recorded(Record(w, Decoded(txns[i])), txns, p, i)

RecordSerialized(w, blob, p) ==
    IF rlpDecodeBytes(blob).err THEN Serialized(0, FALSE, FALSE, w, p)
    ELSE RecordEach(w, rlpDecodeBytes(blob).txns, p, 1)

Persisted(st) == [accounts |-> st.accounts, tokens |-> st.tokens,
                  orderBooks |-> st.orderBooks,
                  orderExpirations |-> st.orderExpirations,
                  freezeTokens |-> st.freezeTokens]

newTransition(st, r) ==
    [round |-> r, finalized |-> FALSE, tokenCreations |-> <<>>, txns |-> <<>>,
     expirations |-> EmptyMap, filledOrders |-> <<>>, orderBooks |-> EmptyMap,
     dirtyOrderBooks |-> {}, tokenCache |-> st.tokens, purged |-> {}]

(***************************************************************************)
(* The validator of the consensus artifacts.  The chain is the record      *)
(* [round, depth]: Chain.Round() and RandomBeacon.Depth().  A result is    *)
(* the record of the returned values, and of the value the call aborted    *)
(* with ("none" when it returned).                                         *)
(***************************************************************************)
NumGroups == 3
Groups == 0 .. NumGroups - 1
Proposers == {"P", "X"}

\* RandomBeacon.Committees(round): the random beacon, block proposal and
\* notarization committees of the round.
Committees(round) ==
    [rb |-> (round + 1) % NumGroups, bp |-> round % NumGroups, nt |-> (round + 2) % NumGroups]

\* RandomBeacon.Rank(owner, round): the rank of a member of the round's block
\* proposal committee, an error for any other owner.
Rank(owner, round) ==
    IF owner = "X" THEN [rank |-> 0, err |-> TRUE]
    ELSE [rank |-> round % 2, err |-> FALSE]

\* bls.Sign.Deserialize: a signature is malformed, or the signature of a group
\* on a block.
Deserialize(sig) == [sign |-> sig, err |-> sig.malformed]

\* bls.Sign.Verify against the public key of a group, of the block without
\* its signature.
Verify(sign, group, b) == sign.group = group /\ sign.round = b.Round /\ sign.owner = b.Owner

\* A float64 that is a power of 0.5, or 0.
Weight(num, den) == [num |-> num, den |-> den]

rankToWeight(rank) ==
    IF rank < 0 THEN [weight |-> Weight(0, 1), panic |-> "rank"]
    ELSE [weight |-> Weight(1, 2 ^ rank), panic |-> "none"]

ValidateBlockUnverified(c, b) ==
    IF b.Round > c.depth THEN [weight |-> Weight(0, 1), ok |-> FALSE, panic |-> "none"]
    ELSE IF Deserialize(b.NotarizationSig).err
         THEN [weight |-> Weight(0, 1), ok |-> FALSE, panic |-> "none"]
    ELSE IF Rank(b.Owner, b.Round).err
         THEN [weight |-> Weight(0, 1), ok |-> FALSE, panic |-> "none"]
    ELSE [weight |-> rankToWeight(Rank(b.Owner, b.Round).rank).weight,
          ok |-> rankToWeight(Rank(b.Owner, b.Round).rank).panic = "none",
          panic |-> rankToWeight(Rank(b.Owner, b.Round).rank).panic]

ValidateBlock(c, b) ==
    IF b.Round > c.depth THEN [weight |-> Weight(0, 1), ok |-> FALSE, panic |-> "none"]
    ELSE IF Deserialize(b.NotarizationSig).err
         THEN [weight |-> Weight(0, 1), ok |-> FALSE, panic |-> "none"]
    ELSE IF ~Verify(Deserialize(b.NotarizationSig).sign, Committees(b.Round).nt, b)
         THEN [weight |-> Weight(0, 1), ok |-> FALSE, panic |-> "none"]
    ELSE IF Rank(b.Owner, b.Round).err
         THEN [weight |-> Weight(0, 1), ok |-> FALSE, panic |-> "none"]
    ELSE [weight |-> rankToWeight(Rank(b.Owner, b.Round).rank).weight,
          ok |-> rankToWeight(Rank(b.Owner, b.Round).rank).panic = "none",
          panic |-> rankToWeight(Rank(b.Owner, b.Round).rank).panic]

ValidateBlockProposal(c, bp) ==
    IF bp.Round # c.round THEN [weight |-> Weight(0, 1), ok |-> FALSE, panic |-> "none"]
    ELSE [weight |-> Weight(0, 1), ok |-> TRUE, panic |-> "none"]

ValidateNtShareOfPastRounds(c, n) ==
    IF n.Round > c.round THEN [group |-> 0, ok |-> FALSE, panic |-> "none"]
    ELSE [group |-> Committees(c.round).nt, ok |-> TRUE, panic |-> "none"]

ValidateNtShare(c, n) ==
    IF n.Round # c.round THEN [group |-> 0, ok |-> FALSE, panic |-> "none"]
    ELSE [group |-> Committees(c.round).nt, ok |-> TRUE, panic |-> "none"]

ValidateRandBeaconSig(c, r) ==
    IF r.Round # c.depth THEN [ok |-> FALSE, panic |-> "none"]
    ELSE [ok |-> TRUE, panic |-> "none"]

ValidateRandBeaconSigShare(c, r) ==
    IF r.Round # c.depth THEN [group |-> 0, ok |-> FALSE, panic |-> "none"]
    ELSE [group |-> Committees(c.depth).rb, ok |-> TRUE, panic |-> "none"]

GenesisChain == [round |-> 0, depth |-> 0]

NoVerdict == [op |-> "none"]

(***************************************************************************)
(* The state machine.                                                      *)
(*   t, s       the Transition and the State it works on                   *)
(*   panic      reason of the abort, "none" while the process runs         *)
(*   last       the last call and what it returned                         *)
(*   base       the persisted State when the Transition was created        *)
(*   committed  Commit was called on the Transition                        *)
(*   cancelled  the ids of the orders cancelled by a CancelOrder so far    *)
(*   chain      the validator's chain: its round and the random beacon     *)
(*   verdict    the last call of a validator predicate and what it         *)
(*              returned                                                   *)
(*   rejected   the artifacts a validator predicate rejected as being of   *)
(*              a lower round                                              *)
(*   pool       the raw transactions of the transaction pool               *)
(***************************************************************************)
VARIABLES t, s, panic, last, base, committed, cancelled, chain, verdict, rejected, pool

vars == <<t, s, panic, last, base, committed, cancelled, chain, verdict, rejected, pool>>

dexVars == <<t, s, last, base, committed, cancelled, pool>>
validatorVars == <<chain, verdict, rejected>>

World == [t |-> t, s |-> s, panic |-> panic]

NoTxn == [type |-> "none"]

GenesisTokens ==
    << [ID |-> 0, Symbol |-> "abc", Decimals |-> 0, TotalUnits |-> 2],
       [ID |-> 1, Symbol |-> "xyz", Decimals |-> 0, TotalUnits |-> 1] >>

GenesisAccounts ==
    [a \in Addrs |->
        IF a = "A" THEN UpdateBalance(NewAccount, 0, [ZeroBalance EXCEPT !.Available = 2])
        ELSE IF a = "B" THEN UpdateBalance(NewAccount, 1, [ZeroBalance EXCEPT !.Available = 1])
        ELSE NoAccount]

GenesisState ==
    [accountCache |-> GenesisAccounts, tokenStage |-> <<>>,
     accounts |-> GenesisAccounts, tokens |-> GenesisTokens,
     orderBooks |-> EmptyMap,
     orderExpirations |-> [r \in Rounds |-> <<>>],
     freezeTokens |-> [r \in Rounds |-> <<>>]]

\* The first Transition, created on the State st.
InitOn(st) ==
    /\ s = st
    /\ t = newTransition(st, 1)
    /\ panic = "none"
    /\ last = [op |-> "newTransition", valid |-> FALSE, success |-> FALSE, reason |-> "",
               txn |-> NoTxn, nonce |-> "", wasFinal |-> FALSE]
    /\ base = Persisted(st)
    /\ committed = FALSE
    /\ cancelled = {}
    /\ chain = GenesisChain
    /\ verdict = NoVerdict
    /\ rejected = {}
    /\ pool = {}

Init == InitOn(GenesisState)

(***************************************************************************)
(* Inputs.                                                                 *)
(***************************************************************************)
Traders == {"A", "B"}
TradeMarkets == {Market(0, 1)}
BadMarkets == {Market(0, 0), Market(0, MaxTokens - 1)}

PlaceOrderTxns(owners, markets, quants, prices, expires) ==
    [type : {"PlaceOrder"}, Owner : owners, Nonce : {"ready"}, Market : markets,
     SellSide : BOOLEAN, Quant : quants, Price : prices, ExpireRound : expires]

CancelOrderTxns(owners, markets, ids) ==
    [type : {"CancelOrder"}, Owner : owners, Nonce : {"ready"},
     ID : [ID : ids, Market : markets]]

IssueTokenTxns(owners) ==
    [type : {"IssueToken"}, Owner : owners, Nonce : {"ready"},
     Info : [Symbol : Symbols, Decimals : {0}, TotalUnits : {2}]]

SendTokenTxns(owners, tos, quants) ==
    [type : {"SendToken"}, Owner : owners, Nonce : {"ready"},
     TokenID : {1}, To : tos, Quant : quants]

FreezeTokenTxns(owners, quants, rounds) ==
    [type : {"FreezeToken"}, Owner : owners, Nonce : {"ready"},
     TokenID : {0}, Quant : quants, AvailableRound : rounds]

OtherTxns ==
    [type : {"Unknown"}, Owner : {"A"}, Nonce : {"ready"}]
      \cup [type : {"SendToken"}, Owner : {"A", "C"}, Nonce : {"gap", "invalid", "ready"},
            TokenID : {0}, To : {"B"}, Quant : {1}]

(***************************************************************************)
(* Actions.                                                                *)
(***************************************************************************)
DoRecord(txn, limit) ==
    /\ panic = "none"
    /\ Len(t.txns) < limit
    /\ txn.type = "IssueToken" => Size(World) + Len(t.tokenCreations) < MaxTokens
    /\ \E r \in {Record(World, txn)} :
           /\ t' = r.w.t
           /\ s' = r.w.s
           /\ panic' = r.w.panic
           /\ last' = [op |-> "Record", valid |-> r.valid, success |-> r.success,
                       reason |-> r.reason,
                       txn |-> IF r.success THEN txn ELSE NoTxn,
                       nonce |-> txn.Nonce,
                       wasFinal |-> t.finalized]
           /\ cancelled' = IF r.success /\ txn.type = "CancelOrder"
                           THEN cancelled \cup {txn.ID} ELSE cancelled
    /\ UNCHANGED <<base, committed>>
    /\ UNCHANGED <<validatorVars, pool>>

DoStateHash ==
    /\ panic = "none"
    /\ \E f \in StateHash(World) :
          /\ t' = f.t
          /\ s' = f.s
          /\ panic' = f.panic
    /\ last' = [op |-> "StateHash", valid |-> FALSE, success |-> FALSE, reason |-> "",
                txn |-> NoTxn, nonce |-> "", wasFinal |-> t.finalized]
    /\ UNCHANGED <<base, committed, cancelled>>
    /\ UNCHANGED <<validatorVars, pool>>

DoCommit ==
    /\ panic = "none"
    /\ \E f \in Commit(World) :
          /\ t' = f.t
          /\ s' = f.s
          /\ panic' = f.panic
          /\ committed' = (f.panic = "none")
    /\ last' = [op |-> "Commit", valid |-> FALSE, success |-> FALSE, reason |-> "",
                txn |-> NoTxn, nonce |-> "", wasFinal |-> t.finalized]
    /\ UNCHANGED <<base, cancelled>>
    /\ UNCHANGED <<validatorVars, pool>>

\* The next round's Transition is created on the committed State.
DoNewTransition ==
    /\ panic = "none"
    /\ committed
    /\ t.round < MaxRound
    /\ t' = newTransition(s, t.round + 1)
    /\ base' = Persisted(s)
    /\ committed' = FALSE
    /\ last' = [op |-> "newTransition", valid |-> FALSE, success |-> FALSE, reason |-> "",
                txn |-> NoTxn, nonce |-> "", wasFinal |-> FALSE]
    /\ UNCHANGED <<s, panic, cancelled>>
    /\ UNCHANGED <<validatorVars, pool>>

(***************************************************************************)
(* Spec: every kind of transaction, two per round.                         *)
(***************************************************************************)
RecordPlaceOrder ==
    \E txn \in PlaceOrderTxns(Traders, TradeMarkets \cup BadMarkets, 0 .. MaxQuant,
                              {100000000}, {0, t.round, t.round + 1}) : DoRecord(txn, MaxTxns)
RecordCancelOrder == \E txn \in CancelOrderTxns(Traders, TradeMarkets, 0 .. 1) : DoRecord(txn, MaxTxns)
RecordIssueToken == \E txn \in IssueTokenTxns({"A"}) : DoRecord(txn, MaxTxns)
RecordSendToken == \E txn \in SendTokenTxns({"B"}, {"A", "C"}, 0 .. 1) : DoRecord(txn, MaxTxns)
RecordFreezeToken ==
    \E txn \in FreezeTokenTxns({"A"}, 0 .. 1, {t.round, t.round + 1, t.round + 2}) :
        DoRecord(txn, MaxTxns)
RecordOther == \E txn \in OtherTxns : DoRecord(txn, MaxTxns)

Next ==
    \/ RecordPlaceOrder
    \/ RecordCancelOrder
    \/ RecordIssueToken
    \/ RecordSendToken
    \/ RecordFreezeToken
    \/ RecordOther
    \/ DoStateHash
    \/ DoCommit
    \/ DoNewTransition

Spec == Init /\ [][Next]_vars

(***************************************************************************)
(* SpecTrade: orders without expiration at every price, three per round.   *)
(***************************************************************************)
TradePlaceOrder ==
    \E txn \in PlaceOrderTxns(Traders, TradeMarkets, 1 .. MaxQuant, Prices, {0}) :
        DoRecord(txn, MaxTxns + 1)
TradeCancelOrder ==
    \E txn \in CancelOrderTxns(Traders, TradeMarkets, 0 .. 1) : DoRecord(txn, MaxTxns + 1)

NextTrade ==
    \/ TradePlaceOrder
    \/ TradeCancelOrder
    \/ DoCommit
    \/ DoNewTransition

SpecTrade == Init /\ [][NextTrade]_vars

(***************************************************************************)
(* SpecExpire: orders with expiration on two markets, two per round.       *)
(***************************************************************************)
ExpirePlaceOrder ==
    \E txn \in PlaceOrderTxns(Traders, {Market(0, 1), Market(1, 0)}, 1 .. 1, {100000000},
                              {0, t.round + 1, t.round + 2}) : DoRecord(txn, MaxTxns)
ExpireCancelOrder ==
    \E txn \in CancelOrderTxns(Traders, {Market(0, 1)}, 0 .. 0) : DoRecord(txn, MaxTxns)

NextExpire ==
    \/ ExpirePlaceOrder
    \/ ExpireCancelOrder
    \/ DoStateHash
    \/ DoCommit
    \/ DoNewTransition

SpecExpire == Init /\ [][NextExpire]_vars

(***************************************************************************)
(* SpecCancel: a buyer that holds the largest amount of the quote token,   *)
(* orders at a price whose quote amounts reach that amount, three per      *)
(* round.                                                                  *)
(***************************************************************************)
RichTokens ==
    << [ID |-> 0, Symbol |-> "abc", Decimals |-> 0, TotalUnits |-> 2],
       [ID |-> 1, Symbol |-> "xyz", Decimals |-> 0, TotalUnits |-> Modulus - 1] >>

RichAccounts ==
    [GenesisAccounts EXCEPT
        !["B"] = UpdateBalance(NewAccount, 1, [ZeroBalance EXCEPT !.Available = Modulus - 1])]

RichState == [GenesisState EXCEPT !.accountCache = RichAccounts, !.accounts = RichAccounts,
                                  !.tokens = RichTokens]

InitRich == InitOn(RichState)

\* The price Modulus - 1/2, in OrderPriceDecimals decimals.
HighPrice == (2 * Modulus - 1) * 50000000

CancelPlaceOrder ==
    \E txn \in PlaceOrderTxns(Traders, TradeMarkets, 1 .. MaxQuant, {100000000, HighPrice}, {0}) :
        DoRecord(txn, MaxTxns + 1)
CancelCancelOrder ==
    \E txn \in CancelOrderTxns(Traders, TradeMarkets, 0 .. 1) : DoRecord(txn, MaxTxns + 1)

NextCancel ==
    \/ CancelPlaceOrder
    \/ CancelCancelOrder
    \/ DoCommit
    \/ DoNewTransition

SpecCancel == InitRich /\ [][NextCancel]_vars

(***************************************************************************)
(* SpecSerialized: payloads of up to two transactions, recorded from their *)
(* serialized form, with a pool that holds some of them.                   *)
(***************************************************************************)
PayloadTxns ==
    PlaceOrderTxns(Traders, TradeMarkets, 1 .. 1, {100000000}, {0})
        \cup SendTokenTxns({"B"}, {"A"}, 0 .. 1)
        \cup [type : {"SendToken"}, Owner : {"A"}, Nonce : {"gap", "invalid"},
              TokenID : {0}, To : {"B"}, Quant : {1}]

Payloads == {<<>>} \cup {<<Raw(a)>> : a \in PayloadTxns}
                \cup {<<Raw(a), Raw(b)>> : a \in PayloadTxns, b \in PayloadTxns}

Blobs == {<<>>} \cup {rlpEncodeToBytes(bs) : bs \in Payloads}

DoRecordSerialized ==
    /\ panic = "none"
    /\ \E blob \in Blobs :
          /\ Len(t.txns) + Len(blob) <= MaxTxns + 1
          /\ t.round < MaxRound
          /\ \E r \in {RecordSerialized(World, blob, pool)} :
                /\ t' = r.w.t
                /\ s' = r.w.s
                /\ panic' = r.w.panic
                /\ pool' = r.pool
                /\ last' = [op |-> "RecordSerialized", count |-> r.count, valid |-> r.valid,
                            success |-> r.success, blob |-> blob, was |-> World,
                            pool |-> pool]
    /\ UNCHANGED <<base, committed, cancelled, validatorVars>>

\* The pool receives a transaction from a peer.
PoolAdd ==
    /\ panic = "none"
    /\ \E txn \in SendTokenTxns({"B"}, {"A"}, 1 .. 1) : pool' = pool \cup {Raw(txn)}
    /\ UNCHANGED <<t, s, panic, last, base, committed, cancelled, validatorVars>>

NextSerialized ==
    \/ DoRecordSerialized
    \/ PoolAdd
    \/ DoCommit
    \/ DoNewTransition

SpecSerialized == Init /\ [][NextSerialized]_vars

(***************************************************************************)
(* SpecFreeze: an account that holds four units, freezes of every quantity *)
(* until this round and the next two, and transfers, two per round.        *)
(***************************************************************************)
InitFreeze ==
    InitOn([GenesisState EXCEPT
        !.tokens[1].TotalUnits = 4,
        !.accountCache["A"] = UpdateBalance(NewAccount, 0, [ZeroBalance EXCEPT !.Available = 4]),
        !.accounts["A"] = UpdateBalance(NewAccount, 0, [ZeroBalance EXCEPT !.Available = 4])])

FreezeFreezeToken ==
    \E txn \in FreezeTokenTxns({"A"}, 0 .. MaxQuant, {t.round, t.round + 1, t.round + 2}) :
        DoRecord(txn, MaxTxns)

NextFreeze ==
    \/ FreezeFreezeToken
    \/ RecordSendToken
    \/ DoStateHash
    \/ DoCommit
    \/ DoNewTransition

SpecFreeze == InitFreeze /\ [][NextFreeze]_vars

(***************************************************************************)
(* SpecValidator: the validator predicates on every artifact, while the    *)
(* chain round and the beacon depth grow.                                  *)
(***************************************************************************)
ChainRounds == 0 .. MaxChainRound

Sigs ==
    {[malformed |-> TRUE, group |-> 0, round |-> 0, owner |-> "P"]}
        \cup [malformed : {FALSE}, group : Groups, round : ChainRounds, owner : Proposers]

Blocks == [Round : ChainRounds, Owner : Proposers, NotarizationSig : Sigs]

Artifacts == [Round : ChainRounds]

\* A call of a validator predicate that returns res on the artifact art.
Validated(op, art, res) ==
    /\ panic = "none"
    /\ verdict' = [op |-> op, art |-> art, res |-> res]
    /\ panic' = res.panic
    /\ UNCHANGED <<chain, dexVars>>

\* The artifacts rejected so far as being of a lower round.
Rejected(op, art, bound, res) ==
    IF ~res.ok /\ art.Round < bound THEN rejected \cup {[op |-> op, art |-> art]} ELSE rejected

DoValidateBlock ==
    \E b \in Blocks :
        /\ Validated("ValidateBlock", b, ValidateBlock(chain, b))
        /\ UNCHANGED rejected

DoValidateBlockProposal ==
    \E bp \in Artifacts :
        /\ Validated("ValidateBlockProposal", bp, ValidateBlockProposal(chain, bp))
        /\ rejected' = Rejected("ValidateBlockProposal", bp, chain.round,
                                ValidateBlockProposal(chain, bp))

DoValidateNtShare ==
    \E n \in Artifacts :
        /\ Validated("ValidateNtShare", n, ValidateNtShare(chain, n))
        /\ rejected' = Rejected("ValidateNtShare", n, chain.round, ValidateNtShare(chain, n))

DoValidateRandBeaconSig ==
    \E r \in Artifacts :
        /\ Validated("ValidateRandBeaconSig", r, ValidateRandBeaconSig(chain, r))
        /\ rejected' = Rejected("ValidateRandBeaconSig", r, chain.depth,
                                ValidateRandBeaconSig(chain, r))

DoValidateRandBeaconSigShare ==
    \E r \in Artifacts :
        /\ Validated("ValidateRandBeaconSigShare", r, ValidateRandBeaconSigShare(chain, r))
        /\ rejected' = Rejected("ValidateRandBeaconSigShare", r, chain.depth,
                                ValidateRandBeaconSigShare(chain, r))

\* The chain finalizes a round.
AdvanceRound ==
    /\ panic = "none"
    /\ chain.round < MaxChainRound
    /\ chain' = [chain EXCEPT !.round = @ + 1]
    /\ UNCHANGED <<verdict, rejected, panic, dexVars>>

\* The random beacon produces its next signature.
AdvanceDepth ==
    /\ panic = "none"
    /\ chain.depth < MaxChainRound
    /\ chain' = [chain EXCEPT !.depth = @ + 1]
    /\ UNCHANGED <<verdict, rejected, panic, dexVars>>

NextValidator ==
    \/ DoValidateBlock
    \/ DoValidateBlockProposal
    \/ DoValidateNtShare
    \/ DoValidateRandBeaconSig
    \/ DoValidateRandBeaconSigShare
    \/ AdvanceRound
    \/ AdvanceDepth

SpecValidator == Init /\ [][NextValidator]_vars

(***************************************************************************)
(* Properties.                                                             *)
(***************************************************************************)
RECURSIVE FrozenSum(_)
FrozenSum(frozen) == IF frozen = <<>> THEN 0 ELSE Head(frozen).Quant + FrozenSum(Tail(frozen))

Holdings(acc, tok) ==
    Balance(acc, tok).Available + Balance(acc, tok).Pending + FrozenSum(Balance(acc, tok).Frozen)

RECURSIVE TotalHoldings(_, _)
TotalHoldings(addrs, tok) ==
    IF addrs = {} THEN 0
    ELSE LET a == CHOOSE x \in addrs : TRUE
         IN  Holdings(s.accountCache[a], tok) + TotalHoldings(addrs \ {a}, tok)

IssuedTokens == s.tokens \o s.tokenStage

\* The reserve a pending order holds on token tok.
Reserve(o, tok) ==
    IF o.SellSide
    THEN IF o.ID.Market.Base = tok THEN o.Quant - o.Executed ELSE 0
    ELSE IF o.ID.Market.Quote = tok
         THEN calcQuoteQuant(o.Quant - o.Executed, IssuedTokens[o.ID.Market.Quote + 1].Decimals,
                             o.Price, OrderPriceDecimals,
                             IssuedTokens[o.ID.Market.Base + 1].Decimals)
         ELSE 0

RECURSIVE ReserveSum(_, _)
ReserveSum(orders, tok) ==
    IF orders = {} THEN 0
    ELSE LET o == CHOOSE x \in orders : TRUE
         IN  Reserve(o, tok) + ReserveSum(orders \ {o}, tok)

\* C1: for every token, the sum over all accounts of available + pending +
\* frozen quants equals the total units issued for that token.
C1_BalanceConservation ==
    panic = "none" =>
        \A i \in DOMAIN IssuedTokens :
            TotalHoldings(Addrs, IssuedTokens[i].ID) = IssuedTokens[i].TotalUnits

\* C2: for every account and token the pending balance is at least the sum
\* of the reserves of the account's pending orders, and the aborts on a
\* pending balance that is too small are never reached.
C2_PendingCoversOrders ==
    /\ panic \notin {"pending balance smaller than refund", "insufficient pending balance"}
    /\ panic = "none" =>
          \A a \in Addrs : \A tok \in TokenIDs :
              Balance(s.accountCache[a], tok).Pending
                  >= ReserveSum(s.accountCache[a].pendingOrders, tok)

\* C3: for every account and token the pending balance equals the sum of
\* the reserves of the account's pending orders; an account without pending
\* orders has pending 0 on every token.
C3_PendingEqualsReserves ==
    panic = "none" =>
        \A a \in Addrs : \A tok \in TokenIDs :
            Balance(s.accountCache[a], tok).Pending
                = ReserveSum(s.accountCache[a].pendingOrders, tok)

\* C4: a transaction that fails validation makes Record return success =
\* FALSE and leaves the Transition (txn list, order books, dirty set, staged
\* token creations and expirations) and the State (accounts, pending orders,
\* freeze schedule) as they were before the call.
C4_RejectedTxnChangesNothing ==
    [][(last'.op = "Record" /\ ~last'.wasFinal /\ ~last'.valid)
          => (~last'.success /\ t' = t /\ s' = s /\ panic' = panic)]_vars

C4_Witness ==
    /\ last.op = "Record" /\ ~last.valid /\ ~last.success
    /\ last.reason = "sell failed: insufficient balance"
    /\ \E a \in Addrs : s.accountCache[a].pendingOrders # {}
    /\ t.dirtyOrderBooks # {}
    /\ t.txns # <<>>

\* C5: the txn list grows by exactly the transactions for which Record
\* returned (true, true), in call order; a nonce gap returns (true, false)
\* and changes nothing; an invalid nonce returns (false, false) and
\* appends nothing; no other call touches the list.
C5_TxnsAreTheRecordedTxns ==
    [][/\ (last'.op = "Record" /\ ~last'.wasFinal /\ panic' = "none") =>
             /\ (last'.valid /\ last'.success) => t'.txns = Append(t.txns, last'.txn)
             /\ ~(last'.valid /\ last'.success) => t'.txns = t.txns
             /\ last'.nonce = "gap" =>
                    \/ last'.valid /\ ~last'.success /\ t' = t /\ s' = s
                    \/ last'.reason = "nonce invalid"
             /\ last'.nonce = "invalid" => ~last'.valid /\ ~last'.success
             /\ last'.success => last'.nonce = "ready"
       /\ last'.op \in {"StateHash", "Commit"} => t'.txns = t.txns]_vars

C5_Witness ==
    /\ last.op = "Record" /\ last.nonce = "gap" /\ last.valid /\ ~last.success
    /\ t.txns # <<>>

\* C6: as long as Commit was not called on the Transition, the persisted
\* State is what it was when the Transition was created.
C6_DiscardableBeforeCommit ==
    (panic = "none" /\ ~committed) => Persisted(s) = base

\* C8: once the Transition is finalized, a further StateHash or Commit
\* changes no account, order book, schedule or State value, and the first
\* StateHash or Commit that completes leaves the Transition finalized.
C8_FinalizeOnce ==
    [][last'.op \in {"StateHash", "Commit"} =>
          /\ t.finalized =>
                /\ s' = s
                /\ [t' EXCEPT !.tokenCache = t.tokenCache] = t
                /\ panic' = panic
          /\ panic' = "none" => t'.finalized]_vars

C8_Witness ==
    /\ last.op \in {"StateHash", "Commit"} /\ last.wasFinal /\ panic = "none"
    /\ s.orderExpirations[t.round + 1] # <<>>
    /\ s.freezeTokens[t.round + 1] # <<>>
    /\ t.expirations # EmptyMap

Range(f) == {f[i] : i \in DOMAIN f}

\* The expirations scheduled for round r, persisted or staged.
ScheduledFor(r) ==
    Range(s.orderExpirations[r])
        \cup (IF r \in DOMAIN t.expirations THEN Range(t.expirations[r]) ELSE {})

\* Neither cancelled nor fully filled.
Unsettled(e) == e.ID \notin cancelled /\ e.ID \notin {o.ID : o \in Range(t.filledOrders)}

CurrentBook(m) == getOrderBook(World, m).t.orderBooks[m]
InBook(id) == \E o \in CurrentBook(id.Market).orders : o.ID = id.ID
Present(e) == HasPendingOrder(s.accountCache[e.Owner], e.ID) /\ InBook(e.ID)
Absent(e) == ~HasPendingOrder(s.accountCache[e.Owner], e.ID) /\ ~InBook(e.ID)

\* C7 as stated: an order with expire_round = R that is neither filled nor
\* cancelled is in its owner's pending set and in the book at the start of
\* round R, and absent from both at the end of round R.
C7_ExpiresInItsExpireRound ==
    panic = "none" =>
        \A e \in ScheduledFor(t.round) :
            Unsettled(e) =>
                IF t.finalized THEN Absent(e)
                ELSE last.op = "newTransition" => Present(e)

\* The rounds whose expirations have been processed.
ExpiredUpTo == IF t.finalized THEN t.round + 1 ELSE t.round

ExpirationInvariant ==
    \A r \in Rounds \ {0} :
        \A e \in ScheduledFor(r) :
            Unsettled(e) =>
                IF r > ExpiredUpTo
                THEN Present(e) /\ PendingOrder(s.accountCache[e.Owner], e.ID).ExpireRound = r
                ELSE Absent(e)

ExpiringOrders(a) ==
    {PendingOrder(s.accountCache[a], e.ID) :
        e \in {x \in ScheduledFor(t.round + 1) : x.Owner = a /\ Unsettled(x)}}

RECURSIVE ThawSum(_, _, _)
ThawSum(tokens, a, tok) ==
    IF tokens = <<>> THEN 0
    ELSE (IF Head(tokens).Addr = a /\ Head(tokens).TokenID = tok THEN Head(tokens).Quant ELSE 0)
             + ThawSum(Tail(tokens), a, tok)

\* C7, amended: an order with expire_round = R that is neither filled nor
\* cancelled is in its owner's pending set and in the book until round R-1
\* is finalized and absent from both once that finalization has completed;
\* the finalization moves its remaining reserve from pending to available.
C7_ExpiresWhenPreviousRoundIsFinalized ==
    [][panic' = "none" =>
          /\ ExpirationInvariant'
          /\ (~t.finalized /\ t'.finalized) =>
                \A a \in Addrs : \A tok \in TokenIDs :
                    LET refund == ReserveSum(ExpiringOrders(a), tok)
                        before == Balance(s.accountCache[a], tok)
                        after == Balance(s'.accountCache[a], tok)
                    IN  /\ after.Pending = U(before.Pending - refund)
                        /\ after.Available =
                               U(before.Available + refund
                                   + ThawSum(s.freezeTokens[t.round + 1], a, tok))]_vars

C7_Witness ==
    /\ panic = "none" /\ t.finalized
    /\ \E e \in Range(s.orderExpirations[t.round + 1]) :
          /\ e.ID \notin cancelled
          /\ (t.round + 1 \in DOMAIN t.expirations => e \notin Range(t.expirations[t.round + 1]))
          /\ Absent(e)
          /\ Balance(s.accountCache[e.Owner], e.ID.Market.Base).Pending = 0
          /\ Balance(s.accountCache[e.Owner], e.ID.Market.Quote).Pending = 0

\* C9: whatever order the maps are iterated in, finalization ends in one
\* and the same State.
FinalizeOutcomes == {[state |-> Persisted(f.s), panic |-> f.panic] : f \in finalizeState(World)}

RECURSIVE QuantSum(_)
QuantSum(execs) == IF execs = <<>> THEN 0 ELSE Head(execs).Quant + QuantSum(Tail(execs))

RECURSIVE QuoteSumAt(_, _, _, _)
QuoteSumAt(execs, price, quoteInfo, baseInfo) ==
    IF execs = <<>> THEN 0
    ELSE calcQuoteQuant(Head(execs).Quant, quoteInfo.Decimals, price, OrderPriceDecimals,
                        baseInfo.Decimals)
             + QuoteSumAt(Tail(execs), price, quoteInfo, baseInfo)

RECURSIVE QuoteSumAtTrade(_, _, _)
QuoteSumAtTrade(execs, quoteInfo, baseInfo) ==
    IF execs = <<>> THEN 0
    ELSE calcQuoteQuant(Head(execs).Quant, quoteInfo.Decimals, Head(execs).Price,
                        OrderPriceDecimals, baseInfo.Decimals)
             + QuoteSumAtTrade(Tail(execs), quoteInfo, baseInfo)

\* What a buy order of txn does to the balances, fill by fill, as the claim
\* states it; pre and post are the account caches around the Record call.
SettlesAtMakerPrice(txn, pre, post) ==
    LET m == txn.Market
        order == [Owner |-> txn.Owner, SellSide |-> FALSE, Quant |-> txn.Quant,
                  Price |-> txn.Price, ExpireRound |-> txn.ExpireRound]
        execs == Limit(CurrentBook(m), order).executions
        takerExecs == SelectSeq(execs, LAMBDA e : e.Taker)
        makerExecs(a) == SelectSeq(execs, LAMBDA e : ~e.Taker /\ e.Owner = a)
        makers == {execs[i].Owner : i \in {j \in DOMAIN execs : ~execs[j].Taker}}
        qi == Info(World, m.Quote)
        bi == Info(World, m.Base)
        reserve == calcQuoteQuant(txn.Quant, qi.Decimals, txn.Price, OrderPriceDecimals, bi.Decimals)
        atLimit == QuoteSumAt(takerExecs, txn.Price, qi, bi)
        atTrade == QuoteSumAtTrade(takerExecs, qi, bi)
        quoteBefore == Balance(pre[txn.Owner], m.Quote)
        quoteAfter == Balance(post[txn.Owner], m.Quote)
    IN  (takerExecs # <<>> /\ txn.Owner \notin makers) =>
           /\ quoteAfter.Pending = U(quoteBefore.Pending + reserve - atLimit)
           /\ quoteAfter.Available = U(quoteBefore.Available - reserve + atLimit - atTrade)
           /\ Balance(post[txn.Owner], m.Base).Available
                  = U(Balance(pre[txn.Owner], m.Base).Available + QuantSum(takerExecs))
           /\ \A a \in makers :
                 /\ Balance(post[a], m.Base).Pending
                        = U(Balance(pre[a], m.Base).Pending - QuantSum(makerExecs(a)))
                 /\ Balance(post[a], m.Quote).Available
                        = U(Balance(pre[a], m.Quote).Available
                              + QuoteSumAtTrade(makerExecs(a), qi, bi))
           /\ QuantSum(takerExecs) = txn.Quant => quoteAfter.Pending = quoteBefore.Pending

\* C10: a buy taker with limit L filled for q against a resting sell at
\* price P <= L: its quote.pending decreases by calcQuoteQuant(q, L), its
\* quote.available changes by calcQuoteQuant(q, L) - calcQuoteQuant(q, P),
\* its base.available increases by q, the maker's base.pending decreases by
\* q and the maker's quote.available increases by calcQuoteQuant(q, P); a
\* taker fully filled in the placement has its quote.pending back at its
\* value before the placement.
C10_SettlementAtMakerPrice ==
    [][(/\ last'.op = "Record" /\ last'.success /\ panic' = "none"
        /\ last'.txn.type = "PlaceOrder" /\ ~last'.txn.SellSide)
          => SettlesAtMakerPrice(last'.txn, s.accountCache, s'.accountCache)]_vars

\* What CancelOrder txn does when Record answers r in the current state.
CancelsAsStated(txn, r) ==
    LET owner == s.accountCache[txn.Owner]
        m == txn.ID.Market
    IN  IF HasPendingOrder(owner, txn.ID)
        THEN LET o == PendingOrder(owner, txn.ID)
                 after == r.w.s.accountCache
             IN  /\ o.Quant - o.Executed > 0
                 /\ r.valid /\ r.success /\ r.w.panic = "none"
                 /\ ~HasPendingOrder(after[txn.Owner], txn.ID)
                 /\ after[txn.Owner].pendingOrders = owner.pendingOrders \ {o}
                 /\ \A x \in r.w.t.orderBooks[m].orders : x.ID # txn.ID.ID
                 /\ m \in r.w.t.dirtyOrderBooks
                 /\ \A tok \in TokenIDs :
                       /\ Balance(after[txn.Owner], tok).Pending
                              = Balance(owner, tok).Pending - Reserve(o, tok)
                       /\ Balance(after[txn.Owner], tok).Available
                              = Balance(owner, tok).Available + Reserve(o, tok)
                       /\ Balance(after[txn.Owner], tok).Frozen = Balance(owner, tok).Frozen
                 /\ \A a \in Addrs \ {txn.Owner} : after[a] = s.accountCache[a]
        ELSE ~r.success /\ r.w = World

\* C11: CancelOrder of an order in the sender's pending set succeeds, takes
\* the order out of the book and of the pending set, marks the market dirty
\* and moves exactly the remaining reserve from pending to available,
\* changing no other balance; CancelOrder of an id that is not in the
\* sender's pending set (cancelled before, or another account's) fails.
C11_CancelRefundsRemainingReserve ==
    (panic = "none" /\ ~t.finalized) =>
        \A txn \in CancelOrderTxns(Traders, TradeMarkets, 0 .. 1) :
            CancelsAsStated(txn, Record(World, txn))

\* No two tokens, persisted or staged, share a symbol up to case, and the
\* ids are 0, 1, 2, ... in issue order.
TokensUnique ==
    /\ \A i, j \in DOMAIN IssuedTokens :
          i # j => ToUpper(IssuedTokens[i].Symbol) # ToUpper(IssuedTokens[j].Symbol)
    /\ \A i \in DOMAIN IssuedTokens : IssuedTokens[i].ID = i - 1
    /\ ~t.finalized => s.tokenStage = t.tokenCreations

\* C12: token symbols stay unique case-insensitively across transitions;
\* an issued token gets id = token_cache.size + the number of tokens staged
\* earlier in the transition, so the ids are distinct and increase in issue
\* order; a rejected issuance leaves the tokens and all balances unchanged.
C12_TokenUniqueness ==
    [][/\ TokensUnique'
       /\ (last'.op = "Record" /\ last'.success /\ last'.txn.type = "IssueToken") =>
             /\ Len(t'.tokenCreations) = Len(t.tokenCreations) + 1
             /\ t'.tokenCreations[Len(t'.tokenCreations)].ID
                    = Size(World) + Len(t.tokenCreations)
             /\ t'.tokenCreations[Len(t'.tokenCreations)].Symbol = last'.txn.Info.Symbol
             /\ SubSeq(t'.tokenCreations, 1, Len(t.tokenCreations)) = t.tokenCreations
       /\ (last'.op = "Record" /\ last'.reason \in
               {"token symbol already exists",
                "token symbol already exists in the current transition"}) =>
             /\ ~last'.success
             /\ t'.tokenCreations = t.tokenCreations
             /\ s' = s]_vars

\* Two tokens were issued in one transition, after a commit.
C12_Witness ==
    /\ last.op = "Record" /\ last.success /\ last.txn.type = "IssueToken"
    /\ Len(t.tokenCreations) = 2
    /\ t.round > 1

\* C13: a successful FreezeToken of quant q with available_round = R debits
\* q from available and appends the frozen entry {R, q}; the entry is
\* released at the finalization of round R-1 and in no other round, so
\* after the finalization of round r no account holds a frozen entry with
\* available_round <= r+1, also among entries of equal quant.
C13_FrozenReleasedInItsRound ==
    [][/\ (last'.op = "Record" /\ last'.success /\ last'.txn.type = "FreezeToken") =>
             LET txn == last'.txn
                 b == Balance(s.accountCache[txn.Owner], txn.TokenID)
                 b1 == Balance(s'.accountCache[txn.Owner], txn.TokenID)
             IN  /\ t.round < txn.AvailableRound
                 /\ b1.Available = b.Available - txn.Quant
                 /\ b1.Frozen = Append(b.Frozen, [AvailableRound |-> txn.AvailableRound,
                                                  Quant |-> txn.Quant])
       /\ (~t.finalized /\ t'.finalized /\ panic' = "none") =>
             \A a \in Addrs : \A tok \in TokenIDs :
                 Balance(s'.accountCache[a], tok).Frozen
                     = SelectSeq(Balance(s.accountCache[a], tok).Frozen,
                                 LAMBDA f : f.AvailableRound # t.round + 1)
       /\ (t'.finalized /\ panic' = "none") =>
             \A a \in Addrs : \A tok \in TokenIDs :
                 \A i \in DOMAIN Balance(s'.accountCache[a], tok).Frozen :
                     Balance(s'.accountCache[a], tok).Frozen[i].AvailableRound > t'.round + 1]_vars

RECURSIVE ReportSum(_, _)
ReportSum(reports, id) ==
    IF reports = <<>> THEN 0
    ELSE (IF Head(reports).ID = id THEN Head(reports).Quant ELSE 0) + ReportSum(Tail(reports), id)

\* C14: after every Record call a pending order has 0 <= executed < quant
\* and executed is the sum of the quants of its executions; an order whose
\* executed reached quant is in filledOrders and in no pending set, so a
\* cancel never meets an order with quant <= executed.
C14_PendingOrderExecuted ==
    panic = "none" =>
        /\ \A a \in Addrs : \A o \in s.accountCache[a].pendingOrders :
              /\ 0 <= o.Executed /\ o.Executed < o.Quant
              /\ o.Executed = ReportSum(s.accountCache[a].reports, o.ID)
        /\ \A i \in DOMAIN t.filledOrders :
              /\ t.filledOrders[i].Executed = t.filledOrders[i].Quant
              /\ \A a \in Addrs : ~HasPendingOrder(s.accountCache[a], t.filledOrders[i].ID)
        /\ \A a \in Addrs : \A i \in DOMAIN s.accountCache[a].reports :
              LET rep == s.accountCache[a].reports[i]
              IN  (~t.finalized /\ rep.Round = t.round
                      /\ ~HasPendingOrder(s.accountCache[a], rep.ID)) =>
                      \/ rep.ID \in cancelled
                      \/ \E j \in DOMAIN t.filledOrders :
                            /\ t.filledOrders[j].ID = rep.ID
                            /\ t.filledOrders[j].Quant
                                   = ReportSum(s.accountCache[a].reports, rep.ID)

\* A maker filled in two executions, and an order left partly filled.
C14_Witness ==
    /\ panic = "none"
    /\ \E i \in DOMAIN t.filledOrders :
          Cardinality({k \in DOMAIN s.accountCache[t.filledOrders[i].Owner].reports :
                         s.accountCache[t.filledOrders[i].Owner].reports[k].ID
                             = t.filledOrders[i].ID}) = 2
    /\ \E a \in Addrs : \E o \in s.accountCache[a].pendingOrders : o.Executed > 0

\* What a validator predicate returns on a mismatch and on a match.
Refused(zero) == zero @@ [ok |-> FALSE, panic |-> "none"]
Accepted(value) == value @@ [ok |-> TRUE, panic |-> "none"]

\* The artifact is accepted by the predicate that rejected it.
AcceptedNow(a) ==
    CASE a.op = "ValidateBlockProposal" -> ValidateBlockProposal(chain, a.art).ok
      [] a.op = "ValidateNtShare" -> ValidateNtShare(chain, a.art).ok
      [] a.op = "ValidateRandBeaconSig" -> ValidateRandBeaconSig(chain, a.art).ok
      [] a.op = "ValidateRandBeaconSigShare" -> ValidateRandBeaconSigShare(chain, a.art).ok

\* C15: a block proposal and a notarization share are accepted exactly when
\* their round is the chain's round, a random beacon signature and a share of
\* it exactly when their round is the beacon's depth; on a match the
\* predicates return weight 0, the notarization committee of the round and
\* the random beacon committee, on a mismatch the zero value and false; and
\* an artifact rejected as being of a lower round is not accepted later.
C15_ValidatorRoundPredicates ==
    /\ \A a \in Artifacts :
          /\ ValidateBlockProposal(chain, a) =
                IF a.Round = chain.round THEN Accepted([weight |-> Weight(0, 1)])
                ELSE Refused([weight |-> Weight(0, 1)])
          /\ ValidateNtShare(chain, a) =
                IF a.Round = chain.round THEN Accepted([group |-> Committees(a.Round).nt])
                ELSE Refused([group |-> 0])
          /\ ValidateRandBeaconSig(chain, a) =
                IF a.Round = chain.depth THEN [ok |-> TRUE, panic |-> "none"]
                ELSE [ok |-> FALSE, panic |-> "none"]
          /\ ValidateRandBeaconSigShare(chain, a) =
                IF a.Round = chain.depth THEN Accepted([group |-> Committees(a.Round).rb])
                ELSE Refused([group |-> 0])
    /\ \A a \in rejected : ~AcceptedNow(a)

\* A notarization share of round 0 was rejected as of a lower round, and a
\* share of round 2 is accepted with the notarization committee of round 2.
C15_Witness ==
    /\ [op |-> "ValidateNtShare", art |-> [Round |-> 0]] \in rejected
    /\ [op |-> "ValidateRandBeaconSigShare", art |-> [Round |-> 0]] \in rejected
    /\ verdict.op = "ValidateNtShare"
    /\ verdict.art.Round = MaxChainRound
    /\ verdict.res.ok
    /\ verdict.res.group = Committees(MaxChainRound).nt

\* The checks of ValidateBlock, as the contract states them.
BlockFails(b) ==
    \/ b.Round > chain.depth
    \/ b.NotarizationSig.malformed
    \/ b.NotarizationSig.group # Committees(b.Round).nt
    \/ b.NotarizationSig.round # b.Round
    \/ b.NotarizationSig.owner # b.Owner
    \/ Rank(b.Owner, b.Round).err

\* C16: no validator predicate aborts; ValidateBlock returns (0, false) when
\* the block's round is above the beacon's depth, when the notarization
\* signature does not deserialize or verify against the key of the round's
\* notarization committee, and when the rank of the proposer is not found,
\* and (0.5^rank, true) otherwise.
C16_ValidatorNeverAborts ==
    /\ verdict.op # "none" => verdict.res.panic = "none"
    /\ \A a \in Artifacts :
          /\ ValidateBlockProposal(chain, a).panic = "none"
          /\ ValidateNtShare(chain, a).panic = "none"
          /\ ValidateRandBeaconSig(chain, a).panic = "none"
          /\ ValidateRandBeaconSigShare(chain, a).panic = "none"
    /\ \A b \in Blocks :
          ValidateBlock(chain, b) =
              IF BlockFails(b) THEN Refused([weight |-> Weight(0, 1)])
              ELSE Accepted([weight |-> Weight(1, 2 ^ Rank(b.Owner, b.Round).rank)])

\* A block of rank 1 was accepted with weight 1/2.
C16_Witness ==
    /\ verdict.op = "ValidateBlock"
    /\ verdict.res.ok
    /\ verdict.res.weight = Weight(1, 2)
    /\ panic = "none"

\* The State as it was when the Transition was created, and a fresh
\* Transition of the same round on it.
PriorState == [accountCache |-> base.accounts, tokenStage |-> <<>>] @@ base
FreshWorld == [t |-> newTransition(PriorState, t.round), s |-> PriorState, panic |-> "none"]

\* C17: RecordSerialized of Txns() on a fresh Transition, created on the same
\* prior State and round, records every transaction of the list, in the same
\* order, and returns (len(list), true, true); this includes the empty list.
C17_PayloadRoundTrip ==
    panic = "none" =>
        \A r \in {RecordSerialized(FreshWorld, Txns(World), {})} :
            /\ r.count = Len(t.txns)
            /\ r.valid
            /\ r.success
            /\ r.w.t.txns = t.txns

Recordable(r) == r.valid /\ r.success

\* RecordSerialized, called on the Transition w0 and the pool pool0 with the
\* raw transactions txns (two at most), returned res; r1 and r2 are what
\* Record returns on the first transaction, and on the second one after the
\* first.
StopsAtFirstFailure(w0, pool0, txns, r1, r2, res) ==
    IF Len(txns) = 0
    THEN res = Serialized(0, TRUE, TRUE, w0, pool0)
    ELSE IF ~Recordable(r1)
    THEN /\ res.count = 0 /\ res.valid = r1.valid /\ res.success = r1.success
         /\ res.w = w0
         /\ pool0 \subseteq res.pool
    ELSE IF Len(txns) = 1
    THEN /\ res.count = 1 /\ res.valid /\ res.success
         /\ res.w = r1.w
         /\ res.w.t.txns = Append(w0.t.txns, Decoded(txns[1]))
         /\ res.pool = pool0 \ {txns[1]}
    ELSE IF ~Recordable(r2)
    THEN /\ res.count = 0 /\ res.valid = r2.valid /\ res.success = r2.success
         /\ res.w = r1.w
         /\ res.w.t.txns = Append(w0.t.txns, Decoded(txns[1]))
         /\ txns[1] # txns[2] => txns[1] \notin res.pool
         /\ pool0 \ {txns[1]} \subseteq res.pool
    ELSE /\ res.count = 2 /\ res.valid /\ res.success
         /\ res.w = r2.w
         /\ res.w.t.txns = Append(Append(w0.t.txns, Decoded(txns[1])), Decoded(txns[2]))
         /\ res.pool = pool0 \ {txns[1], txns[2]}

FirstRecorded(w0, txns) == IF Len(txns) > 0 THEN Record(w0, Decoded(txns[1])) ELSE Result(TRUE, TRUE, "", w0)

SecondRecorded(r1, txns) == IF Len(txns) > 1 THEN Record(r1.w, Decoded(txns[2])) ELSE r1

\* C19: RecordSerialized records the transactions of the payload in their
\* order and stops at the first one that Record does not return (true, true)
\* for: it returns count 0 and the (valid, success) of that transaction, the
\* transactions before it stay recorded and are removed from the pool, that
\* transaction and the later ones are not recorded and not removed from the
\* pool; it returns (number of transactions, true, true) when each one was
\* recorded.
C19_StopsAtFirstFailure ==
    [][(last' # last /\ last'.op = "RecordSerialized" /\ panic' = "none"
            /\ ~rlpDecodeBytes(last'.blob).err) =>
          StopsAtFirstFailure(last'.was, last'.pool, rlpDecodeBytes(last'.blob).txns,
              FirstRecorded(last'.was, rlpDecodeBytes(last'.blob).txns),
              SecondRecorded(FirstRecorded(last'.was, rlpDecodeBytes(last'.blob).txns),
                             rlpDecodeBytes(last'.blob).txns),
              Serialized(last'.count, last'.valid, last'.success,
                         [t |-> t', s |-> s', panic |-> panic'], pool'))]_vars

\* The second transaction of a payload was refused as not ready, after the
\* first one, taken from the pool, was recorded.
C19_Witness ==
    /\ last.op = "RecordSerialized"
    /\ last.count = 0 /\ last.valid /\ ~last.success
    /\ Len(last.blob) = 3
    /\ last.blob[2] \in last.pool
    /\ last.blob[2] \notin pool
    /\ Len(t.txns) = Len(last.was.t.txns) + 1
    /\ panic = "none"

\* The entries of the staged expirations of round r that name a filled order.
StagedFilled(w, r) ==
    IF r \in DOMAIN w.t.expirations
    THEN {i \in DOMAIN w.t.expirations[r] : w.t.expirations[r][i].ID \in FilledIDs(w)}
    ELSE {}

\* C18: at finalization, for each expire round with filled orders, the filled
\* orders are dropped from the staged expirations of the round, and
\* State.RemoveOrderExpirations is called for the round exactly when fewer
\* entries were dropped than orders with that expire round were filled.
C18_PurgesOnlyPersistedEntries ==
    [][(~t.finalized /\ t'.finalized /\ panic' = "none") =>
          \A r \in FilledRounds(World) :
              /\ \A i \in DOMAIN t'.expirations[r] : t'.expirations[r][i].ID \notin FilledIDs(World)
              /\ r \in t'.purged <=> Cardinality(StagedFilled(World, r)) < FilledCount(World, r)]_vars

\* C20: finalization does not abort in expireOrders: each entry of the
\* persisted expirations of round + 1 that the finalization of a round reads
\* names an order of the pending orders of its owner, also when the order
\* was cancelled or filled before.
C20_ExpireOrdersNeverAborts == panic # "can not find expiring order"

\* The entries of quant q of account a and token tok in the freeze schedule
\* of round r, and in the frozen list of the account.
ScheduledQuants(r, a, tok, q) ==
    {i \in DOMAIN s.freezeTokens[r] :
        /\ s.freezeTokens[r][i].Addr = a
        /\ s.freezeTokens[r][i].TokenID = tok
        /\ s.freezeTokens[r][i].Quant = q}

FrozenQuants(a, tok, q) ==
    {i \in DOMAIN Balance(s.accountCache[a], tok).Frozen :
        Balance(s.accountCache[a], tok).Frozen[i].Quant = q}

RECURSIVE ScheduledCount(_, _, _, _)
ScheduledCount(rounds, a, tok, q) ==
    IF rounds = {} THEN 0
    ELSE LET r == CHOOSE x \in rounds : TRUE
         IN  Cardinality(ScheduledQuants(r, a, tok, q)) + ScheduledCount(rounds \ {r}, a, tok, q)

\* The frozen list of every account holds the quants of the freeze schedule
\* of the rounds that were not thawed yet.
ThawFindsItsEntry ==
    panic = "none" =>
        \A a \in Addrs : \A tok \in TokenIDs : \A q \in 0 .. (Modulus - 1) :
            ScheduledCount({r \in Rounds : r > ExpiredUpTo}, a, tok, q)
                = Cardinality(FrozenQuants(a, tok, q))

\* The freeze schedule after the step is the one before it, with the entry of
\* txn appended to the round of txn when txn is a recorded freeze.
ScheduleKeepsFreezes ==
    IF t'.txns = Append(t.txns, last'.txn) /\ last'.txn.type = "FreezeToken"
    THEN s'.freezeTokens =
             [s.freezeTokens EXCEPT ![last'.txn.AvailableRound] =
                 Append(@, [Addr |-> last'.txn.Owner, TokenID |-> last'.txn.TokenID,
                            Quant |-> last'.txn.Quant])]
    ELSE s'.freezeTokens = s.freezeTokens

\* C21: for every account and token the quants of the freeze schedule of the
\* rounds not thawed yet are the quants of the frozen list of the account, no
\* finalization fails to find the frozen entry of a schedule entry, and the
\* finalization of round R - 1 adds to the available balance the total of
\* the freezes until round R, which are the entries of the schedule of R.
C21_ThawFindsItsEntry ==
    /\ ThawFindsItsEntry
    /\ [][/\ ThawFindsItsEntry'
          /\ panic' # "index out of range"
          /\ ScheduleKeepsFreezes
          /\ (~t.finalized /\ t'.finalized /\ panic' = "none") =>
                \A a \in Addrs : \A tok \in TokenIDs :
                    Balance(s'.accountCache[a], tok).Available
                        = Balance(s.accountCache[a], tok).Available
                            + ThawSum(s.freezeTokens[t.round + 1], a, tok)]_vars

\* Two entries of different quants, frozen until round 2, were thawed by the
\* finalization of round 1 while an entry of the later round stays frozen.
C21_Witness ==
    /\ panic = "none"
    /\ t.finalized
    /\ Len(s.freezeTokens[t.round + 1]) = 2
    /\ s.freezeTokens[t.round + 1][1].Quant # s.freezeTokens[t.round + 1][2].Quant
    /\ \E a \in Addrs : \E tok \in TokenIDs : Balance(s.accountCache[a], tok).Frozen # <<>>

====
